---- MODULE Spec2Model ----
(***************************************************************************)
(* mpsc_requests: a request/response channel on top of std::sync::mpsc.    *)
(* One Responder owns the receive-end of the shared queue of Request       *)
(* envelopes; any number of Requester clones own send-ends.  send_req      *)
(* builds an envelope with a fresh one-shot reply channel, submits it and  *)
(* blocks on the reply; poll dequeues one envelope, runs the handler and   *)
(* sends the response on the envelope's reply channel.                     *)
(*                                                                         *)
(* Caller threads are 1..NThreads; thread 1 holds the Requester returned   *)
(* by channel(), the others obtain theirs by clone().  The Responder is    *)
(* owned by one further thread, which calls poll or poll_loop on it.       *)
(* The atomic steps are the blocking/synchronising points of the code:     *)
(* the two mpsc operations of send_req (send, recv) and the three steps of *)
(* poll (recv, the handler call, send).                                    *)
(***************************************************************************)
EXTENDS Naturals, Sequences, FiniteSets

\* Number of caller threads (N_THREADS of test_multiple_requesters, scaled).
NThreads == 2
\* Number of sequential send_req calls a thread may issue
\* (N_REQUESTS_PER_THREAD of test_multiple_requesters, scaled).
MaxReqs == 2

Threads == 1..NThreads

\* Strings are sequences of characters.
StrTest == <<"t","e","s","t">>
StrHttp == <<"h","t","t","p",":","/","/","t","e","s","t",".","c","o","m">>
HttpPrefix == <<"h","t","t","p",":","/","/">>

\* The request bodies the callers draw from (the messages of the tests).
Bodies == {StrTest, StrHttp}

\* str::starts_with
StartsWith(s, p) == Len(s) >= Len(p) /\ SubSeq(s, 1, Len(p)) = p

\* The handlers the tests hand to poll_loop.
Handlers == {"echo", "wordcount", "result"}

\* f(request.request): the handler h applied to a request body.
Handler(h, req) ==
    CASE h = "echo" -> req
      [] h = "wordcount" -> Len(req)
      [] h = "result" -> IF StartsWith(req, HttpPrefix) THEN "Ok" ELSE "Err"

\* The crate's database example: the users, and the age the example stores.
Users == {"George", "David"}
GeorgeAge == 64

\* enum Commands { CreateUser(String, u64), GetUser(String) }
CreateUser(user, age) == [cmd |-> "CreateUser", user |-> user, age |-> age]
GetUser(user) == [cmd |-> "GetUser", user |-> user, age |-> 0]

\* The commands the example's callers send.
Commands == {CreateUser("George", GeorgeAge), GetUser("George"), GetUser("David")}

\* Result<Responses, Errors>: Ok(Responses::Success()), Ok(Responses::GotUser(age)),
\* Err(Errors::NoSuchPerson)
Success == [ok |-> TRUE, kind |-> "Success", age |-> 0]
GotUser(age) == [ok |-> TRUE, kind |-> "GotUser", age |-> age]
NoSuchPerson == [ok |-> FALSE, kind |-> "NoSuchPerson", age |-> 0]

\* HashMap::new(): per user <<>> (no entry) or <<age>>.
EmptyTable == [u \in Users |-> <<>>]

\* The response of the example's closure to command c with age_table tab.
DbResponse(tab, c) ==
    IF c.cmd = "CreateUser" THEN Success
    ELSE IF tab[c.user] # <<>> THEN GotUser(tab[c.user][1])
    ELSE NoSuchPerson

\* Mutant of DbTable: the insertion is lost (the table does not outlive the
\* invocation).
DbTableForgets(tab, c) == tab

\* age_table after the example's closure has run on command c.
DbTable(tab, c) ==
    IF c.cmd = "CreateUser" THEN [tab EXCEPT ![c.user] = <<c.age>>] ELSE tab

\* The request bodies the callers of a channel with handler h draw from.
Requests(h) == IF h = "database" THEN Commands ELSE Bodies

\* f(request.request), for a handler that may close over age_table.
Respond(h, tab, req) ==
    IF h = "database" THEN DbResponse(tab, req) ELSE Handler(h, req)

\* The state the handler closes over, after f(request.request).
NextTable(h, tab, req) ==
    IF h = "database" THEN DbTable(tab, req) ELSE tab

VARIABLES
    f,                \* the handler the Responder's thread passes to poll / poll_loop
    request_senders,  \* the threads that hold a live Requester (a send-end of the queue)
    request_receiver, \* TRUE while the Responder (the receive-end of the queue) exists
    queue,            \* the shared queue: a sequence of Request envelopes
    paths,            \* the reply channel of each call, by call identity <<thread, call number>>
    tpc,              \* per caller thread: "idle", "await" (blocked in response_receiver.recv),
                      \* "panic_send" / "panic_recv" (panicked in the unwrap of the send / of
                      \* the recv), or "gone" (see response_receiver_vanishes)
    treq,             \* per caller thread: the body of its current (or last) send_req, as <<>> or <<body>>
    tret,             \* per caller thread: the value its last send_req returned, as <<>> or <<value>>
    ncalls,           \* per caller thread: the number of send_req calls it has started
    rpc,              \* the Responder's thread: "idle", "recv", "handle", "send", "panicked" or "dropped"
    rmode,            \* the call the Responder's thread made last: "none", "poll" or "poll_loop"
                      \* (the call is in progress while rpc is "recv", "handle" or "send")
    rres,             \* the result of the last poll that returned: "none", "Ok", "RecvError" or "SendError"
    cur,              \* the envelope poll holds (request), as <<>> or <<envelope>>
    response,         \* the response the handler returned (response), as <<>> or <<value>>
    handled,          \* per call identity: the number of times the handler was invoked on its envelope
    age_table,        \* the table the database handler closes over
    committed,        \* history: the users whose CreateUser call has returned to its caller
    seen,             \* history, per caller thread: committed as it was when the thread's call started
    recv_errors       \* history: the number of polls that returned RecvError, counted up to 2

vars == <<f, request_senders, request_receiver, queue, paths, tpc, treq, tret,
          ncalls, rpc, rmode, rres, cur, response, handled,
          age_table, committed, seen, recv_errors>>

\* The identity of a send_req call: the calling thread and the number of the call.
CallIds == Threads \X (1..MaxReqs)

\* The reply channel of a call that has not been made yet.
NoPath == [buf |-> <<>>, tx |-> FALSE, rx |-> FALSE, nsent |-> 0]

\* mpsc::channel::<Res>(): a fresh reply channel, empty, both ends alive.
\* buf holds the values in flight, tx / rx tell whether the send-end
\* (response_sender) / the receive-end (response_receiver) still exists,
\* nsent counts the values ever put on the channel.
NewPath == [buf |-> <<>>, tx |-> TRUE, rx |-> TRUE, nsent |-> 0]

\* struct Request { request, response_sender }
Request(req, id) == [request |-> req, response_sender |-> id]

\* channel(): one queue, one Responder, one Requester (held by thread 1).
Channel ==
    /\ request_senders = {1}
    /\ request_receiver = TRUE
    /\ queue = <<>>
    /\ paths = [id \in CallIds |-> NoPath]
    /\ tpc = [t \in Threads |-> "idle"]
    /\ treq = [t \in Threads |-> <<>>]
    /\ tret = [t \in Threads |-> <<>>]
    /\ ncalls = [t \in Threads |-> 0]
    /\ rpc = "idle"
    /\ rmode = "none"
    /\ rres = "none"
    /\ cur = <<>>
    /\ response = <<>>
    /\ handled = [id \in CallIds |-> 0]
    /\ age_table = EmptyTable
    /\ committed = {}
    /\ seen = [t \in Threads |-> {}]
    /\ recv_errors = 0

\* A channel of the tests, with one of their handlers.
Init == f \in Handlers /\ Channel

\* The channel of the database example.
InitDb == f = "database" /\ Channel

\* The state after channel() with the handler of test_echo: what the
\* Responder's thread and the callers do, and when, does not depend on the
\* handler, which only computes the value of the reply.
InitEcho == f = "echo" /\ Channel

\* The identity of thread t's current (last started) call.
CurId(t) == <<t, ncalls[t]>>

\* Mutant of DropEnvelopes: the envelopes of a dropped queue are leaked, their
\* reply send-ends never dropped.
DropEnvelopesLeak(ps, q) == ps

\* Dropping the envelopes of q drops their reply send-ends.
DropEnvelopes(ps, q) ==
    [id \in CallIds |->
        IF \E i \in 1..Len(q) : q[i].response_sender = id
        THEN [ps[id] EXCEPT !.tx = FALSE]
        ELSE ps[id]]

\* Mutant of clone: a Requester is made for thread u without a live one to
\* clone (a second handle made from the queue itself).
clone_revives(t, u) ==
    /\ u \notin request_senders
    /\ tpc[u] = "idle"
    /\ request_senders' = request_senders \cup {u}
    /\ UNCHANGED <<f, request_receiver, queue, paths, tpc, treq, tret, ncalls,
                   rpc, rmode, rres, cur, response, handled>>
    /\ UNCHANGED <<age_table, committed, seen, recv_errors>>

\* #[derive(Clone)] Requester: thread t clones its Requester for thread u.
clone(t, u) ==
    /\ t \in request_senders
    /\ tpc[t] = "idle"
    /\ u \notin request_senders
    /\ tpc[u] = "idle"
    /\ request_senders' = request_senders \cup {u}
    /\ UNCHANGED <<f, request_receiver, queue, paths, tpc, treq, tret, ncalls,
                   rpc, rmode, rres, cur, response, handled>>
    /\ UNCHANGED <<age_table, committed, seen, recv_errors>>

\* Thread t drops its Requester (it is not inside send_req, which borrows it).
drop_requester(t) ==
    /\ t \in request_senders
    /\ tpc[t] = "idle"
    /\ request_senders' = request_senders \ {t}
    /\ UNCHANGED <<f, request_receiver, queue, paths, tpc, treq, tret, ncalls,
                   rpc, rmode, rres, cur, response, handled>>
    /\ UNCHANGED <<age_table, committed, seen, recv_errors>>

\* mpsc::Sender::send on the shared queue: succeeds while the receive-end exists.
SendSucceeds == request_receiver

\* Mutant of send_req_send: a queue of capacity 1 (sync_channel), on which the
\* submission waits while the queue is full.
send_req_send_bounded(t, req) ==
    /\ t \in request_senders
    /\ tpc[t] = "idle"
    /\ ncalls[t] < MaxReqs
    /\ Len(queue) < 1 \/ ~request_receiver
    /\ LET id == <<t, ncalls[t] + 1>> IN
       /\ ncalls' = [ncalls EXCEPT ![t] = @ + 1]
       /\ treq' = [treq EXCEPT ![t] = <<req>>]
       /\ tret' = [tret EXCEPT ![t] = <<>>]
       /\ IF request_receiver
          THEN /\ queue' = Append(queue, Request(req, id))
               /\ paths' = [paths EXCEPT ![id] = NewPath]
               /\ tpc' = [tpc EXCEPT ![t] = "await"]
               /\ UNCHANGED request_senders
          ELSE /\ paths' = [paths EXCEPT ![id] = [NewPath EXCEPT !.tx = FALSE, !.rx = FALSE]]
               /\ tpc' = [tpc EXCEPT ![t] = "panic_send"]
               /\ request_senders' = request_senders \ {t}
               /\ UNCHANGED queue
    /\ UNCHANGED <<f, request_receiver, rpc, rmode, rres, cur, response, handled>>
    /\ seen' = [seen EXCEPT ![t] = committed]
    /\ UNCHANGED <<age_table, committed, recv_errors>>

\* send_req, up to and including self.request_sender.send(full_request).unwrap():
\* a fresh reply channel and envelope, then the submission.  A failed send
\* hands the envelope back inside the error; unwrap panics, and unwinding
\* drops the envelope, the reply receive-end and the thread's Requester.
send_req_send(t, req) ==
    /\ t \in request_senders
    /\ tpc[t] = "idle"
    /\ ncalls[t] < MaxReqs
    /\ LET id == <<t, ncalls[t] + 1>> IN
       /\ ncalls' = [ncalls EXCEPT ![t] = @ + 1]
       /\ treq' = [treq EXCEPT ![t] = <<req>>]
       /\ tret' = [tret EXCEPT ![t] = <<>>]
       /\ IF SendSucceeds
          THEN /\ queue' = Append(queue, Request(req, id))
               /\ paths' = [paths EXCEPT ![id] = NewPath]
               /\ tpc' = [tpc EXCEPT ![t] = "await"]
               /\ UNCHANGED request_senders
          ELSE /\ paths' = [paths EXCEPT ![id] = [NewPath EXCEPT !.tx = FALSE, !.rx = FALSE]]
               /\ tpc' = [tpc EXCEPT ![t] = "panic_send"]
               /\ request_senders' = request_senders \ {t}
               /\ UNCHANGED queue
    /\ UNCHANGED <<f, request_receiver, rpc, rmode, rres, cur, response, handled>>
    /\ seen' = [seen EXCEPT ![t] = committed]
    /\ UNCHANGED <<age_table, committed, recv_errors>>

\* The users a call with body req commits when it returns: the user of a
\* CreateUser command of the database example.
Commits(h, req) ==
    IF h = "database" /\ req.cmd = "CreateUser" THEN {req.user} ELSE {}

\* Mutant of send_req_recv: try_recv in place of recv, so that the call does
\* not wait for a reply that is not there yet.
send_req_try_recv(t) ==
    /\ tpc[t] = "await"
    /\ LET id == CurId(t) IN
       IF paths[id].buf # <<>>
       THEN /\ tret' = [tret EXCEPT ![t] = <<Head(paths[id].buf)>>]
            /\ paths' = [paths EXCEPT ![id].buf = Tail(@), ![id].rx = FALSE]
            /\ tpc' = [tpc EXCEPT ![t] = "idle"]
            /\ UNCHANGED request_senders
       ELSE /\ paths' = [paths EXCEPT ![id].rx = FALSE]
            /\ tpc' = [tpc EXCEPT ![t] = "panic_recv"]
            /\ request_senders' = request_senders \ {t}
            /\ UNCHANGED tret
    /\ UNCHANGED <<f, request_receiver, queue, treq, ncalls,
                   rpc, rmode, rres, cur, response, handled>>
    /\ committed' = IF paths[CurId(t)].buf # <<>> THEN committed \cup Commits(f, treq[t][1]) ELSE committed
    /\ UNCHANGED <<age_table, seen, recv_errors>>

\* send_req, response_receiver.recv().unwrap(): blocks while the reply channel
\* is empty and its send-end exists; returns the value, or panics when the
\* channel is empty and the send-end is gone.  Either way the receive-end is
\* dropped.
send_req_recv(t) ==
    /\ tpc[t] = "await"
    /\ LET id == CurId(t) IN
       /\ paths[id].buf # <<>> \/ ~paths[id].tx
       /\ IF paths[id].buf # <<>>
          THEN /\ tret' = [tret EXCEPT ![t] = <<Head(paths[id].buf)>>]
               /\ paths' = [paths EXCEPT ![id].buf = Tail(@), ![id].rx = FALSE]
               /\ tpc' = [tpc EXCEPT ![t] = "idle"]
               /\ UNCHANGED request_senders
          ELSE /\ paths' = [paths EXCEPT ![id].rx = FALSE]
               /\ tpc' = [tpc EXCEPT ![t] = "panic_recv"]
               /\ request_senders' = request_senders \ {t}
               /\ UNCHANGED tret
    /\ UNCHANGED <<f, request_receiver, queue, treq, ncalls,
                   rpc, rmode, rres, cur, response, handled>>
    /\ committed' = IF paths[CurId(t)].buf # <<>> THEN committed \cup Commits(f, treq[t][1]) ELSE committed
    /\ UNCHANGED <<age_table, seen, recv_errors>>

\* The Responder's thread calls poll(f).
call_poll ==
    /\ rpc = "idle"
    /\ request_receiver
    /\ rpc' = "recv"
    /\ rmode' = "poll"
    /\ rres' = "none"
    /\ UNCHANGED <<f, request_senders, request_receiver, queue, paths, tpc, treq,
                   tret, ncalls, cur, response, handled>>
    /\ UNCHANGED <<age_table, committed, seen, recv_errors>>

\* The Responder's thread calls poll_loop(f).
call_poll_loop ==
    /\ rpc = "idle"
    /\ request_receiver
    /\ rpc' = "recv"
    /\ rmode' = "poll_loop"
    /\ rres' = "none"
    /\ UNCHANGED <<f, request_senders, request_receiver, queue, paths, tpc, treq,
                   tret, ncalls, cur, response, handled>>
    /\ UNCHANGED <<age_table, committed, seen, recv_errors>>

\* Mutant of PollLoopMatch: a failed reply send is skipped over.
PollLoopMatchLenient(res) ==
    CASE res = "Ok" -> "continue"
      [] res = "RecvError" -> "break"
      [] res = "SendError" -> "continue"

\* Mutant of PollLoopMatch: the loop is left after the first request served.
PollLoopMatchOnce(res) ==
    CASE res = "Ok" -> "break"
      [] res = "RecvError" -> "break"
      [] res = "SendError" -> "panic"

\* poll_loop's match on the result of poll: go round the loop again, break
\* out of it, or panic.
PollLoopMatch(res) ==
    CASE res = "Ok" -> "continue"
      [] res = "RecvError" -> "break"
      [] res = "SendError" -> "panic"

\* What the Responder's thread does with the result of a poll: a direct call
\* of poll hands it to its caller, poll_loop matches on it.
AfterPoll(mode, res) == IF mode = "poll" THEN "return" ELSE PollLoopMatch(res)

\* poll returns res with shared queue q and reply channels ps.  A panic
\* unwinds the Responder's thread, which drops the Responder and, with it,
\* the envelopes still queued.
PollReturns(res, q, ps) ==
    LET next == AfterPoll(rmode, res) IN
    /\ rres' = res
    /\ rpc' = CASE next = "continue" -> "recv"
                [] next = "panic" -> "panicked"
                [] OTHER -> "idle"
    /\ request_receiver' = (next # "panic")
    /\ queue' = IF next = "panic" THEN <<>> ELSE q
    /\ paths' = IF next = "panic" THEN DropEnvelopes(ps, q) ELSE ps

\* Mutant of RecvOutcome: recv reports the loss of the send-ends before it
\* delivers what is queued.
RecvOutcomeClosedFirst ==
    IF request_senders = {} THEN "disconnected"
    ELSE IF queue # <<>> THEN "msg"
    ELSE "block"

\* Mutant of RecvOutcome: recv never reports that the send-ends are gone.
RecvOutcomeNeverCloses == IF queue # <<>> THEN "msg" ELSE "block"

\* Mutant of RecvOutcome: an empty queue is taken for a closed one (try_recv).
RecvOutcomeEmptyCloses == IF queue # <<>> THEN "msg" ELSE "disconnected"

\* mpsc::Receiver::recv on the shared queue: "msg" when an envelope is queued,
\* "disconnected" when none is queued and no send-end exists, else "block".
RecvOutcome ==
    IF queue # <<>> THEN "msg"
    ELSE IF request_senders = {} THEN "disconnected"
    ELSE "block"

\* Mutant of Dequeue: recv reads the first envelope and leaves it queued.
DequeuePeek(q) == q

\* The queue after recv has taken its first envelope.
Dequeue(q) == Tail(q)

\* impl From<mpsc::RecvError> for RequestError
RecvResult == "RecvError"

\* Mutant of poll_recv: recv takes the newest envelope of the queue.
poll_recv_lifo ==
    /\ rpc = "recv"
    /\ RecvOutcome # "block"
    /\ IF RecvOutcome = "msg"
       THEN /\ cur' = <<queue[Len(queue)]>>
            /\ queue' = SubSeq(queue, 1, Len(queue) - 1)
            /\ rpc' = "handle"
            /\ UNCHANGED <<rres, request_receiver, paths>>
       ELSE /\ PollReturns(RecvResult, queue, paths)
            /\ UNCHANGED cur
    /\ UNCHANGED <<f, request_senders, tpc, treq, tret, ncalls, rmode, response, handled>>
    /\ recv_errors' = IF RecvOutcome = "msg" \/ recv_errors = 2 THEN recv_errors ELSE recv_errors + 1
    /\ UNCHANGED <<age_table, committed, seen>>

\* poll, let request = self.request_receiver.recv()?
poll_recv ==
    /\ rpc = "recv"
    /\ RecvOutcome # "block"
    /\ IF RecvOutcome = "msg"
       THEN /\ cur' = <<Head(queue)>>
            /\ queue' = Dequeue(queue)
            /\ rpc' = "handle"
            /\ UNCHANGED <<rres, request_receiver, paths>>
       ELSE /\ PollReturns(RecvResult, queue, paths)
            /\ UNCHANGED cur
    /\ UNCHANGED <<f, request_senders, tpc, treq, tret, ncalls, rmode, response, handled>>
    /\ recv_errors' = IF RecvOutcome = "msg" \/ recv_errors = 2 THEN recv_errors ELSE recv_errors + 1
    /\ UNCHANGED <<age_table, committed, seen>>

\* Mutant of HandlerArg: the handler is given an empty string.
HandlerArgEmpty(env) == <<>>

\* The argument poll passes to the handler: the envelope's body.
HandlerArg(env) == env.request

\* Mutant of poll_handle: poll runs the handler and goes back to receiving,
\* leaving the reply of the envelope it holds unsent.
poll_handle_no_reply ==
    /\ rpc = "handle"
    /\ response' = <<Respond(f, age_table, cur[1].request)>>
    /\ handled' = [handled EXCEPT ![cur[1].response_sender] = @ + 1]
    /\ rpc' = "recv"
    /\ UNCHANGED <<f, request_senders, request_receiver, queue, paths, tpc, treq,
                   tret, ncalls, rmode, rres, cur>>
    /\ age_table' = NextTable(f, age_table, cur[1].request)
    /\ UNCHANGED <<committed, seen, recv_errors>>

\* poll, let response = f(request.request)
poll_handle ==
    /\ rpc = "handle"
    /\ response' = <<Respond(f, age_table, HandlerArg(cur[1]))>>
    /\ handled' = [handled EXCEPT ![cur[1].response_sender] = @ + 1]
    /\ rpc' = "send"
    /\ UNCHANGED <<f, request_senders, request_receiver, queue, paths, tpc, treq,
                   tret, ncalls, rmode, rres, cur>>
    /\ age_table' = NextTable(f, age_table, cur[1].request)
    /\ UNCHANGED <<committed, seen, recv_errors>>

\* Mutant of ReplyTarget: one reply channel for all callers, the one of the
\* envelope at the head of the queue when there is one.
ReplyTargetShared(env) ==
    IF queue # <<>> THEN queue[1].response_sender ELSE env.response_sender

\* The reply channel the response is sent on: the envelope's own.
ReplyTarget(env) == env.response_sender

\* Mutant of SendResult: the result of the reply send is ignored.
SendResultIgnored(ok) == "Ok"

\* The result of poll after its send: Ok(..) of a send that succeeded, else
\* the send's error through impl From<mpsc::SendError<T>> for RequestError.
SendResult(ok) == IF ok THEN "Ok" ELSE "SendError"

\* poll, Ok(request.response_sender.send(response)?): the send succeeds while
\* the reply receive-end exists; the envelope (and its send-end) is dropped
\* when poll returns.
poll_send ==
    /\ rpc = "send"
    /\ LET id == ReplyTarget(cur[1])
           ok == paths[id].rx
           sent == IF ok
                   THEN [paths EXCEPT ![id].buf = Append(@, response[1]),
                                      ![id].nsent = @ + 1]
                   ELSE paths
           ps == [sent EXCEPT ![cur[1].response_sender].tx = FALSE]
       IN PollReturns(SendResult(ok), queue, ps)
    /\ cur' = <<>>
    /\ response' = <<>>
    /\ UNCHANGED <<f, request_senders, tpc, treq, tret, ncalls, rmode, handled>>
    /\ UNCHANGED <<age_table, committed, seen, recv_errors>>

\* The Responder's thread drops the Responder (it is not inside poll or
\* poll_loop, which borrow it): the queued envelopes are dropped with it.
drop_responder ==
    /\ rpc = "idle"
    /\ request_receiver
    /\ request_receiver' = FALSE
    /\ rpc' = "dropped"
    /\ queue' = <<>>
    /\ paths' = DropEnvelopes(paths, queue)
    /\ UNCHANGED <<f, request_senders, tpc, treq, tret, ncalls, rmode, rres,
                   cur, response, handled>>
    /\ UNCHANGED <<age_table, committed, seen, recv_errors>>

\* The reply receive-end of thread t's outstanding call ceases to exist while
\* the call is unanswered: the condition RequestError::SendError and
\* poll_loop's panic message ("send pipe was broken during request") provide
\* for.  send_req itself never produces it (it holds response_receiver until
\* recv has returned), so this step is no part of Next; it is taken only
\* under SpecFault, which exercises poll's handling of a failed reply send.
response_receiver_vanishes(t) ==
    /\ tpc[t] = "await"
    /\ paths[CurId(t)].buf = <<>>
    /\ paths' = [paths EXCEPT ![CurId(t)].rx = FALSE]
    /\ tpc' = [tpc EXCEPT ![t] = "gone"]
    /\ request_senders' = request_senders \ {t}
    /\ UNCHANGED <<f, request_receiver, queue, treq, tret, ncalls,
                   rpc, rmode, rres, cur, response, handled>>
    /\ UNCHANGED <<age_table, committed, seen, recv_errors>>

Next ==
    \/ \E t \in Threads, u \in Threads : clone(t, u)
    \/ \E t \in Threads : drop_requester(t)
    \/ \E t \in Threads, req \in Requests(f) : send_req_send(t, req)
    \/ \E t \in Threads : send_req_recv(t)
    \/ call_poll
    \/ call_poll_loop
    \/ poll_recv
    \/ poll_handle
    \/ poll_send
    \/ drop_responder

Spec == Init /\ [][Next]_vars

\* The steps of a poll in progress, taken by the Responder's thread.
ResponderStep == poll_recv \/ poll_handle \/ poll_send

\* Scheduling: a thread that can take a step is eventually run.  The
\* Responder's thread completes the poll it is in; a caller whose reply (or
\* whose reply channel's closure) is there wakes up.
FairSpec ==
    /\ InitEcho
    /\ [][Next]_vars
    /\ WF_vars(ResponderStep)
    /\ \A t \in Threads : WF_vars(send_req_recv(t))

\* The database example: the Responder's thread does loop { responder.poll(..) }
\* and nothing else; the Requester is used, and may be cloned, by the caller
\* threads.
NextDb ==
    \/ \E t \in Threads, u \in Threads : clone(t, u)
    \/ \E t \in Threads : drop_requester(t)
    \/ \E t \in Threads, req \in Requests(f) : send_req_send(t, req)
    \/ \E t \in Threads : send_req_recv(t)
    \/ call_poll
    \/ poll_recv
    \/ poll_handle
    \/ poll_send

SpecDb == InitDb /\ [][NextDb]_vars

NextFault ==
    \/ Next
    \/ \E t \in Threads : response_receiver_vanishes(t)

\* Spec with reply receive-ends that may vanish.
SpecFault == InitEcho /\ [][NextFault]_vars

(***************************************************************************)
(* Helpers of the properties.                                              *)
(***************************************************************************)

\* The number of handler invocations on id's envelope.
Count(id) == handled[id]

\* The total number of handler invocations.
RECURSIVE SumCounts(_)
SumCounts(ids) ==
    IF ids = {} THEN 0
    ELSE LET id == CHOOSE x \in ids : TRUE
         IN handled[id] + SumCounts(ids \ {id})

Invocations == SumCounts(CallIds)

\* id's envelope is in the shared queue.
InQueue(id) == \E i \in 1..Len(queue) : queue[i].response_sender = id

\* The send_req call id has returned a value to its caller.
Returned(id) ==
    \/ id[2] < ncalls[id[1]]
    \/ id[2] = ncalls[id[1]] /\ tpc[id[1]] = "idle"

\* Every thread has made all its calls and they have all returned.
AllDone == \A t \in Threads : ncalls[t] = MaxReqs /\ tpc[t] = "idle"

(***************************************************************************)
(* C1  Concurrent isolation: with the caller threads each issuing MaxReqs  *)
(* sequential send_req calls, every send_req that returns returns the      *)
(* handler's result for its own body, and once every thread has completed  *)
(* its calls the handler has been invoked NThreads * MaxReqs times.        *)
(***************************************************************************)
C1_ConcurrentIsolation ==
    /\ \A t \in Threads :
         tret[t] # <<>> => tret[t] = <<Handler(f, treq[t][1])>>
    /\ AllDone => Invocations = NThreads * MaxReqs

\* Both threads have completed all their calls against a Responder in
\* poll_loop, their last bodies differing.
C1_Witness ==
    /\ AllDone
    /\ rmode = "poll_loop"
    /\ rpc = "recv"
    /\ treq[1] # treq[2]
    /\ \A t \in Threads : tret[t] # <<>>

(***************************************************************************)
(* C2  Exactly-once response: no envelope is handled twice; a send_req     *)
(* call that has returned had the handler invoked exactly once on its      *)
(* envelope and exactly one value sent on its reply channel; and a value   *)
(* is put on a reply channel only for the call the handler was invoked     *)
(* on, so no reply reaches another caller.                                 *)
(***************************************************************************)
C2_ExactlyOnce ==
    /\ \A id \in CallIds : Count(id) <= 1
    /\ \A id \in CallIds :
         Returned(id) => Count(id) = 1 /\ paths[id].nsent = 1
    /\ \A id \in CallIds : paths[id].nsent <= Count(id)

\* One caller has its reply while another caller's call is still outstanding.
C2_Witness ==
    \E t, u \in Threads :
        /\ t # u
        /\ tret[t] # <<>>
        /\ Returned(CurId(t))
        /\ tpc[u] = "await"

(***************************************************************************)
(* C3  Echo property: with the handler that returns its input, send_req(v) *)
(* returns v, for every v of Bodies; with the handlers whose response type *)
(* differs, send_req(v) returns the length of v (4 for "test"),            *)
(* respectively Ok exactly for the bodies that start with "http://".       *)
(***************************************************************************)
C3_Echo ==
    \A t \in Threads :
        tret[t] # <<>> =>
            /\ f = "echo" => tret[t] = treq[t]
            /\ f = "wordcount" =>
                 /\ tret[t][1] = Len(treq[t][1])
                 /\ treq[t][1] = StrTest => tret[t][1] = 4
                 /\ treq[t][1] = StrHttp => tret[t][1] = 15
            /\ f = "result" =>
                 /\ tret[t][1] \in {"Ok", "Err"}
                 /\ tret[t][1] = "Ok" <=> treq[t][1] = StrHttp

\* test_echo: send_req("test") has returned "test" from a Responder in poll_loop.
C3_Witness ==
    /\ f = "echo"
    /\ rmode = "poll_loop"
    /\ tret[1] = <<StrTest>>
    /\ treq[1] = <<StrTest>>

\* The reply send-ends that exist outside the shared queue: those of the
\* envelopes the Responder has dequeued and not yet answered.
Held == {id \in CallIds : paths[id].tx /\ ~InQueue(id)}

(***************************************************************************)
(* C4  Serialized handler execution: at any time the Responder holds at    *)
(* most one dequeued, unanswered envelope, namely the one poll is in the   *)
(* middle of (so at most one handler invocation is in progress), and when  *)
(* it is about to dequeue it holds none: the reply of an envelope is sent  *)
(* before the next envelope is dequeued.                                   *)
(***************************************************************************)
C4_Serialized ==
    /\ Cardinality(Held) <= 1
    /\ Held = {cur[i].response_sender : i \in 1..Len(cur)}
    /\ cur # <<>> <=> rpc \in {"handle", "send"}
    /\ rpc = "recv" => Held = {}

\* The handler is about to run on one envelope while another caller's
\* envelope waits in the queue.
C4_Witness ==
    /\ rpc = "handle"
    /\ queue # <<>>
    /\ queue[1].response_sender[1] # cur[1].response_sender[1]

\* A step in which poll returns after its reply send.
PollSendStep == rpc = "send" /\ rpc' # "send"

\* A step in which poll returns from its recv without an envelope.
PollRecvErrStep == rpc = "recv" /\ rpc' \notin {"recv", "handle"}

(***************************************************************************)
(* C5  Graceful shutdown: once every Requester is dropped, the poll the    *)
(* Responder is in (or makes next) returns RecvError, a poll_loop takes    *)
(* that RecvError once and returns, the handler is not invoked again, and  *)
(* a poll_loop in progress does terminate.                                 *)
(***************************************************************************)
C5_GracefulShutdown ==
    /\ [][/\ (request_senders = {} /\ rpc = "recv" /\ rpc' # "recv")
               => (rres' = "RecvError" /\ rpc' = "idle")
          /\ (rmode = "poll_loop" /\ rres # "RecvError" /\ rres' = "RecvError")
               => (rpc' = "idle" /\ request_receiver')
          /\ request_senders = {} => handled' = handled]_vars
    /\ (request_senders = {} /\ rmode = "poll_loop" /\ rpc = "recv")
          ~> (rmode = "poll_loop" /\ rpc = "idle" /\ rres = "RecvError")

\* poll_loop has returned on RecvError after the handler served some calls
\* and every Requester was dropped.
C5_Witness ==
    /\ request_senders = {}
    /\ rmode = "poll_loop"
    /\ rpc = "idle"
    /\ rres = "RecvError"
    /\ Invocations >= 2
    /\ \A t \in Threads : tpc[t] = "idle"

(***************************************************************************)
(* C6  The channel stays open while a Requester exists: poll has returned  *)
(* RecvError, or poll_loop has returned, only in states without any        *)
(* Requester; and with a Requester alive and nothing queued, poll's recv   *)
(* cannot take a step (it stays blocked).                                  *)
(***************************************************************************)
C6_OpenWhileRequester ==
    /\ rres = "RecvError" => request_senders = {}
    /\ (rmode = "poll_loop" /\ rpc = "idle") => request_senders = {}
    /\ (rpc = "recv" /\ queue = <<>> /\ request_senders # {}) => ~ENABLED poll_recv

\* poll_loop is blocked in recv on an empty queue while a Requester that has
\* been used is alive and idle.
C6_Witness ==
    /\ rmode = "poll_loop"
    /\ rpc = "recv"
    /\ queue = <<>>
    /\ \E t \in request_senders : tpc[t] = "idle" /\ tret[t] # <<>>

(***************************************************************************)
(* C7  send_req is the synchronization point: while a call's envelope is   *)
(* queued or held by the Responder, its caller is suspended in the call    *)
(* (it has neither returned nor failed, and holds its reply receive-end);  *)
(* and a call has returned a value only after the handler was invoked on   *)
(* its envelope, the reply was sent and the Responder let go of it.        *)
(***************************************************************************)
C7_SyncPoint ==
    /\ \A id \in CallIds :
         (InQueue(id) \/ id \in Held) =>
            /\ tpc[id[1]] = "await"
            /\ CurId(id[1]) = id
            /\ tret[id[1]] = <<>>
            /\ paths[id].rx
    /\ \A t \in Threads :
         tret[t] # <<>> =>
            /\ handled[CurId(t)] >= 1
            /\ paths[CurId(t)].nsent >= 1
            /\ ~InQueue(CurId(t))
            /\ CurId(t) \notin Held

\* A caller is suspended behind another caller's envelope: its own envelope
\* is queued while the handler is about to run on the other one.
C7_Witness ==
    \E t \in Threads :
        /\ tpc[t] = "await"
        /\ InQueue(CurId(t))
        /\ rpc = "handle"
        /\ cur[1].response_sender[1] # t

(***************************************************************************)
(* C8  Requester failure policy: a send_req started when the Responder is  *)
(* gone panics at the submission, queues nothing; a caller waiting for a   *)
(* reply that was not sent when the Responder went has its reply channel   *)
(* closed and, when it takes its step, panics at the reply receive; a      *)
(* panicked call has returned no value and the handler was never invoked   *)
(* on its envelope.                                                        *)
(***************************************************************************)
C8_RequesterFailure ==
    [][\A t \in Threads :
        /\ (tpc[t] = "idle" /\ ncalls'[t] # ncalls[t] /\ ~request_receiver)
             => (tpc'[t] = "panic_send" /\ queue' = queue /\ handled' = handled)
        /\ (tpc[t] = "await" /\ ~request_receiver /\ paths[CurId(t)].buf = <<>>)
             => /\ ~paths[CurId(t)].tx
                /\ tpc'[t] # "await" => tpc'[t] = "panic_recv"
        /\ tpc'[t] \in {"panic_send", "panic_recv"}
             => /\ tret'[t] = <<>>
                /\ handled'[<<t, ncalls'[t]>>] = 0
                /\ ~request_receiver']_vars

\* The Responder is gone; one caller has panicked at the submission and
\* another at the reply receive.
C8_Witness ==
    \E t, u \in Threads :
        /\ tpc[t] = "panic_send"
        /\ tpc[u] = "panic_recv"
        /\ ~request_receiver

(***************************************************************************)
(* C9  poll outcome taxonomy: poll returns Ok only with the handler        *)
(* invoked once on the envelope and the reply delivered on the envelope's  *)
(* reply channel; it returns RecvError only from its recv, with no         *)
(* Requester alive, nothing queued and no handler invocation; it returns   *)
(* SendError only after the handler ran and with the reply receive-end     *)
(* gone.  A direct call of poll hands either result back and leaves the    *)
(* Responder and its queue as they are, ready for the next poll.           *)
(***************************************************************************)
C9_PollTaxonomy ==
    [][/\ PollSendStep =>
            LET id == cur[1].response_sender IN
            /\ rres' \in {"Ok", "SendError"}
            /\ handled[id] = 1
            /\ handled' = handled
            /\ rres' = "Ok" =>
                 /\ paths[id].rx
                 /\ paths'[id].buf = response
                 /\ paths'[id].nsent = 1
            /\ rres' = "SendError" =>
                 /\ ~paths[id].rx
                 /\ paths'[id].nsent = 0
       /\ PollRecvErrStep =>
            /\ rres' = "RecvError"
            /\ request_senders = {}
            /\ queue = <<>>
            /\ cur = <<>>
            /\ handled' = handled
       /\ rpc = "recv" => handled' = handled
       /\ (rpc = "handle" /\ rpc' # "handle") =>
            /\ rpc' = "send"
            /\ handled' = [handled EXCEPT ![cur[1].response_sender] = @ + 1]
       /\ (rres' # rres \/ PollSendStep \/ PollRecvErrStep) =>
            \/ rres' = "none" /\ rpc = "idle"
            \/ rres' = "RecvError" /\ PollRecvErrStep
            \/ rres' \in {"Ok", "SendError"} /\ PollSendStep
       /\ (rmode = "poll" /\ (PollSendStep \/ PollRecvErrStep)) =>
            /\ rpc' = "idle"
            /\ request_receiver'
            /\ queue' = queue]_vars

\* A direct poll has returned SendError to its caller and the Responder is
\* there for another poll, with an envelope waiting.
C9_Witness ==
    /\ rmode = "poll"
    /\ rres = "SendError"
    /\ rpc = "idle"
    /\ request_receiver
    /\ queue # <<>>

(***************************************************************************)
(* C10  poll_loop error policy: on RecvError poll_loop returns to its      *)
(* caller, the Responder intact; on SendError it panics, which ends the    *)
(* Responder's thread for good without another envelope being handled; on  *)
(* Ok it goes on to the next recv.                                         *)
(***************************************************************************)
C10_PollLoopPolicy ==
    [][/\ (rmode = "poll_loop" /\ PollRecvErrStep) =>
            (rres' = "RecvError" /\ rpc' = "idle" /\ request_receiver')
       /\ (rmode = "poll_loop" /\ PollSendStep /\ rres' = "SendError") =>
            (rpc' = "panicked" /\ ~request_receiver' /\ queue' = <<>>)
       /\ (rmode = "poll_loop" /\ PollSendStep /\ rres' = "Ok") =>
            (rpc' = "recv" /\ request_receiver')
       /\ rpc = "panicked" => (rpc' = "panicked" /\ handled' = handled)
       /\ rpc' = "panicked" => (rmode' = "poll_loop" /\ rres' = "SendError")]_vars

\* poll_loop has panicked on SendError while another caller's envelope was
\* queued: that envelope was dropped unhandled.
C10_Witness ==
    /\ rmode = "poll_loop"
    /\ rpc = "panicked"
    /\ rres = "SendError"
    /\ \E t \in Threads :
         /\ tpc[t] = "await"
         /\ handled[CurId(t)] = 0
         /\ ~paths[CurId(t)].tx

(***************************************************************************)
(* C11  Handler state persists across calls in real-time order (database   *)
(* example): a CreateUser(k, a) that has returned returned Success and     *)
(* left k -> a in the table; an entry of the table stays; a GetUser(k)     *)
(* started after a CreateUser(k, a) had returned, from whatever thread,    *)
(* returns GotUser(a); a GetUser that returns an age returns the stored    *)
(* one; GetUser of the never-created "David" returns NoSuchPerson intact,  *)
(* and handling a GetUser changes no stored state.                         *)
(***************************************************************************)
C11_HandlerState ==
    [][/\ \A t \in Threads :
            tret'[t] # <<>> =>
                LET c == treq'[t][1]
                    r == tret'[t][1]
                IN /\ c.cmd = "CreateUser" =>
                        (r = Success /\ age_table'[c.user] = <<c.age>>)
                   /\ c.cmd = "GetUser" =>
                        /\ c.user \in seen'[t] => r = GotUser(GeorgeAge)
                        /\ r.ok => (r.kind = "GotUser" /\ age_table'[c.user] = <<r.age>>)
                        /\ ~r.ok => r = NoSuchPerson
                        /\ c.user = "David" => r = NoSuchPerson
       /\ \A k \in committed' : age_table'[k] = <<GeorgeAge>>
       /\ age_table'["David"] = <<>>
       /\ \A k \in Users : age_table[k] # <<>> => age_table'[k] = age_table[k]
       /\ (rpc = "handle" /\ cur[1].request.cmd = "GetUser") => age_table' = age_table]_vars

\* A thread whose only call is GetUser("George"), started after another
\* thread's CreateUser("George", 64) had returned, has got GotUser(64).
C11_Witness ==
    \E t, u \in Threads :
        /\ t # u
        /\ treq[t] = <<CreateUser("George", GeorgeAge)>>
        /\ tret[t] = <<Success>>
        /\ ncalls[u] = 1
        /\ treq[u] = <<GetUser("George")>>
        /\ "George" \in seen[u]
        /\ tret[u] = <<GotUser(GeorgeAge)>>

(***************************************************************************)
(* C12  Responder state machine: the Responder is CLOSED once a poll has   *)
(* returned RecvError.  It gets there only by a recv that finds no         *)
(* Requester left; CLOSED is terminal: no Requester comes into existence   *)
(* again, nothing is queued or handled any more, and every further poll    *)
(* returns RecvError without invoking the handler.                         *)
(***************************************************************************)
C12_StateMachine ==
    [][/\ request_senders = {} => request_senders' = {}
       /\ recv_errors' > recv_errors =>
            (PollRecvErrStep /\ request_senders = {} /\ rres' = "RecvError")
       /\ recv_errors' > 0 =>
            /\ request_senders' = {}
            /\ queue' = <<>>
            /\ rpc' \notin {"handle", "send"}
       /\ recv_errors > 0 =>
            /\ handled' = handled
            /\ recv_errors' >= recv_errors
            /\ (rpc = "recv" /\ rpc' # "recv") =>
                 (rres' = "RecvError" /\ rpc' = "idle" /\ recv_errors' = 2)]_vars

\* A second poll of the CLOSED Responder has returned RecvError, after the
\* handler had served a call.
C12_Witness ==
    /\ recv_errors = 2
    /\ rmode = "poll"
    /\ rpc = "idle"
    /\ rres = "RecvError"
    /\ request_receiver
    /\ Invocations >= 1

(***************************************************************************)
(* C13  Reply-send failure is unreachable through send_req: with callers   *)
(* that use the channel only through send_req, whenever Requesters or the  *)
(* Responder are dropped, no poll returns SendError and poll_loop never    *)
(* panics: the reply receive-end of every envelope that is queued or held  *)
(* by poll exists, in particular when poll is about to send.               *)
(***************************************************************************)
C13_NoSendError ==
    /\ rres # "SendError"
    /\ rpc # "panicked"
    /\ \A id \in CallIds : (InQueue(id) \/ id \in Held) => paths[id].rx
    /\ rpc = "send" => paths[ReplyTarget(cur[1])].rx

\* poll is about to send a reply while another thread, which has used the
\* channel, has dropped its Requester.
C13_Witness ==
    /\ rpc = "send"
    /\ paths[cur[1].response_sender].rx
    /\ \E t \in Threads :
         t \notin request_senders /\ ncalls[t] >= 1 /\ tpc[t] = "idle"

(***************************************************************************)
(* C14  Ordering: an envelope leaves the queue of a live Responder only    *)
(* from its head, into poll, the others keeping their order; an envelope   *)
(* enters at the tail; and the envelopes of one Requester are handled in   *)
(* the order of their submission (the next is submitted only after the     *)
(* previous was handled).  Between Requesters the order is that of         *)
(* arrival in the queue.                                                   *)
(***************************************************************************)
C14_Ordering ==
    [][/\ \A id \in CallIds :
            (InQueue(id) /\ ~InQueue(id)' /\ request_receiver') =>
                /\ queue[1].response_sender = id
                /\ cur' = <<queue[1]>>
                /\ queue' = Tail(queue)
       /\ Len(queue') > Len(queue) =>
            /\ Len(queue') = Len(queue) + 1
            /\ SubSeq(queue', 1, Len(queue)) = queue
       /\ \A t \in Threads : \A k \in 1..(MaxReqs - 1) :
            /\ handled'[<<t, k + 1>>] > 0 => handled'[<<t, k>>] > 0
            /\ InQueue(<<t, k + 1>>)' => handled'[<<t, k>>] = 1]_vars

\* Thread 2's envelope is queued ahead of the second envelope of thread 1.
C14_Witness ==
    /\ Len(queue) = 2
    /\ queue[1].response_sender[1] = 2
    /\ queue[2].response_sender = <<1, 2>>

(***************************************************************************)
(* C15  Non-blocking submission, no timeout: while the Responder exists a  *)
(* thread with a Requester can always submit, whatever the length of the   *)
(* queue; and a caller whose envelope is still queued, or held by a poll   *)
(* that has not replied, can take no step: it neither returns nor fails.   *)
(***************************************************************************)
C15_NoTimeout ==
    /\ \A t \in request_senders :
         (tpc[t] = "idle" /\ ncalls[t] < MaxReqs /\ request_receiver) =>
            \A req \in Requests(f) : ENABLED send_req_send(t, req)
    /\ \A t \in Threads :
         (tpc[t] = "await" /\ (InQueue(CurId(t)) \/ CurId(t) \in Held)) =>
            ~ENABLED send_req_recv(t)

\* The Responder has never polled; every thread's envelope is queued and
\* every thread is blocked.
C15_Witness ==
    /\ rmode = "none"
    /\ request_receiver
    /\ Len(queue) = NThreads
    /\ \A t \in Threads : tpc[t] = "await"

(***************************************************************************)
(* C16  Reply Path is single-use: a call's reply channel is unused before  *)
(* the call; at most one value is ever sent on it and at most one is in    *)
(* it; its send-end exists in exactly one place, the call's envelope       *)
(* (queued once, or held by poll), is used by at most one poll (the        *)
(* handler runs at most once on the envelope) and is gone once a value     *)
(* was sent;                                                               *)
(* outside a poll the Responder holds no envelope and no reply send-end.   *)
(***************************************************************************)
C16_SingleUse ==
    /\ \A id \in CallIds :
         /\ id[2] > ncalls[id[1]] => paths[id] = NoPath
         /\ paths[id].nsent <= 1
         /\ Len(paths[id].buf) <= paths[id].nsent
         /\ handled[id] <= 1
         /\ paths[id].nsent = 1 => ~paths[id].tx
         /\ Cardinality({i \in 1..Len(queue) : queue[i].response_sender = id})
              + Cardinality({i \in 1..Len(cur) : cur[i].response_sender = id})
              = IF paths[id].tx THEN 1 ELSE 0
    /\ rpc \notin {"handle", "send"} => (cur = <<>> /\ Held = {})

\* Thread 1's first reply channel is used up (one value sent and received,
\* both ends gone) and its second call has a fresh one.
C16_Witness ==
    /\ paths[<<1, 1>>] = [buf |-> <<>>, tx |-> FALSE, rx |-> FALSE, nsent |-> 1]
    /\ paths[<<1, 2>>] = NewPath

\* The threads that are blocked inside send_req.
Blocked == {t \in Threads : tpc[t] = "await"}

\* The Responder's thread is inside poll_loop.
InPollLoop == rmode = "poll_loop" /\ rpc \in {"recv", "handle", "send"}

\* Thread t's send_req has returned the handler's result for its request.
GotReply(t) ==
    /\ tpc[t] = "idle"
    /\ tret[t] # <<>>
    /\ tret[t] = <<Handler(f, treq[t][1])>>

(***************************************************************************)
(* C17  Liveness of calls: under fair scheduling, the send_req calls that  *)
(* are waiting while the Responder's thread is inside poll_loop all        *)
(* eventually end, and if the Responder's thread polls again and again     *)
(* for ever, the send_req calls that are waiting at any time all           *)
(* eventually end; and a send_req that ends while the Responder exists     *)
(* returns the handler's reply to its request.  For every number of        *)
(* caller threads up to NThreads, waiting together or not.                 *)
(***************************************************************************)
C17_CallsReturn ==
    /\ (InPollLoop /\ Blocked # {}) ~> (Blocked = {})
    /\ []<>(rpc = "recv") => (Blocked # {} ~> Blocked = {})
    /\ [][\A t \in Threads :
            (request_receiver /\ tpc[t] = "await" /\ tpc'[t] # "await")
                => GotReply(t)']_vars

\* Under poll_loop, still waiting for requests, every thread has made all
\* its calls and has its last reply.
C17_Witness ==
    /\ rmode = "poll_loop"
    /\ rpc = "recv"
    /\ request_senders = Threads
    /\ \A t \in Threads : ncalls[t] = MaxReqs /\ GotReply(t)
    /\ Invocations = NThreads * MaxReqs

\* Thread t's outstanding call has been answered: the one value of its reply
\* channel has been sent.
Answered(t) == paths[CurId(t)].nsent = 1

\* C18 as stated: once the Responder is gone, a send_req in flight ends, and
\* ends only by panicking.
C18_AlwaysPanics ==
    /\ (~request_receiver /\ Blocked # {}) ~> (Blocked = {})
    /\ [][\A t \in Threads :
            (~request_receiver /\ tpc[t] = "await" /\ tpc'[t] # "await")
                => tpc'[t] = "panic_recv"]_vars

(***************************************************************************)
(* C18  No caller hangs after the Responder is gone: under fair            *)
(* scheduling the send_req calls in flight when the Responder is gone all  *)
(* end (none can start to wait after that); such a call                    *)
(* ends by panicking in the receive, unless its reply had been sent        *)
(* before the Responder was dropped, in which case it returns that reply.  *)
(* A send_req started afterwards panics in the send and queues nothing.    *)
(* The drop of the Responder empties the queue and closes the reply        *)
(* send-end of every envelope that was queued, with nothing sent on it.    *)
(***************************************************************************)
C18_NoHang ==
    /\ (~request_receiver /\ Blocked # {}) ~> (Blocked = {})
    /\ [][/\ \A t \in Threads :
               /\ (~request_receiver /\ tpc[t] = "await" /\ tpc'[t] # "await") =>
                    IF Answered(t)
                    THEN tpc'[t] = "idle" /\ tret'[t] = <<Handler(f, treq[t][1])>>
                    ELSE tpc'[t] = "panic_recv" /\ tret'[t] = <<>>
               /\ (~request_receiver /\ ncalls'[t] > ncalls[t]) =>
                    (tpc'[t] = "panic_send" /\ queue' = <<>> /\ tret'[t] = <<>>)
          /\ (request_receiver /\ ~request_receiver') =>
               /\ queue' = <<>>
               /\ \A id \in CallIds :
                    InQueue(id) => (~paths'[id].tx /\ paths'[id].nsent = 0)]_vars

\* The Responder is gone; one caller has panicked in its receive, and another
\* is still inside send_req with its reply, sent before the drop, waiting.
C18_Witness ==
    /\ ~request_receiver
    /\ \E t, u \in Threads :
         /\ tpc[t] = "await" /\ paths[CurId(t)].buf # <<>>
         /\ tpc[u] = "panic_recv"

(***************************************************************************)
(* C19  No request is lost at shutdown: once poll has returned RecvError   *)
(* (so also once poll_loop has returned) the queue is empty, no send_req   *)
(* is in flight, and the envelope of every send_req ever started has been  *)
(* handled once and, unless its caller has vanished, answered and its      *)
(* reply returned.  recv reports the closure only on an empty queue: an    *)
(* envelope still queued when the last Requester goes is delivered first.  *)
(***************************************************************************)
C19_NothingLost ==
    /\ rres = "RecvError" =>
         /\ queue = <<>>
         /\ cur = <<>>
         /\ \A t \in Threads : tpc[t] # "await"
         /\ \A id \in CallIds :
              id[2] <= ncalls[id[1]] =>
                 /\ handled[id] = 1
                 /\ (id[2] < ncalls[id[1]] \/ tpc[id[1]] # "gone") =>
                        (paths[id].nsent = 1 /\ Returned(id))
    /\ (request_senders = {} /\ queue # <<>>) =>
         (rres # "RecvError" /\ (rpc = "recv" => RecvOutcome = "msg"))

\* poll has returned RecvError; the envelope of a caller that vanished has
\* been handled all the same, and another thread's call has returned.
C19_Witness ==
    /\ rres = "RecvError"
    /\ \E t, u \in Threads :
         /\ tpc[t] = "gone" /\ handled[CurId(t)] = 1
         /\ ncalls[u] >= 1 /\ tpc[u] = "idle" /\ tret[u] # <<>>

\* The envelopes of thread t that are queued or held by poll.
Outstanding(t) ==
    Cardinality({i \in 1..Len(queue) : queue[i].response_sender[1] = t})
        + Cardinality({i \in 1..Len(cur) : cur[i].response_sender[1] = t})

(***************************************************************************)
(* C20  Bounded outstanding work: each calling thread has at most one      *)
(* envelope that is queued or being handled, and none unless it is         *)
(* blocked inside send_req; the length of the queue plus the envelope      *)
(* being handled never exceeds the number of blocked threads; and the      *)
(* reply receive-end of every queued envelope is held by its caller,       *)
(* blocked in the call that submitted it.                                  *)
(***************************************************************************)
C20_BoundedWork ==
    /\ \A t \in Threads :
         Outstanding(t) <= (IF t \in Blocked THEN 1 ELSE 0)
    /\ Len(queue) + Len(cur) <= Cardinality(Blocked)
    /\ \A i \in 1..Len(queue) :
         LET id == queue[i].response_sender IN
         /\ paths[id].rx
         /\ id[1] \in Blocked
         /\ id = CurId(id[1])

\* Every thread is blocked in its last call: one envelope is being handled
\* and those of all the others are queued.
C20_Witness ==
    /\ rpc = "handle"
    /\ Len(queue) = NThreads - 1
    /\ Cardinality(Blocked) = NThreads
    /\ \A t \in Threads : ncalls[t] = MaxReqs

====
